---- MODULE Spec2Model ----
(***************************************************************************)
(* A model of coder.py: the Coder session (run / run_loop), the edit       *)
(* applicator (update_files, do_replace, do_gpt_powered_replace,           *)
(* strip_quoted_wrapping) and the commit synchronizer (commit).            *)
(*                                                                         *)
(* Texts are sequences of tokens.  A token is one character, except that   *)
(* "FENCE" stands for a fence line opener (three backquotes) and a path    *)
(* name stands for the file name written out.  "\n" is the newline.        *)
(***************************************************************************)
EXTENDS Integers, Sequences, FiniteSets, TLC

(***************************************************************************)
(* Bounds of the model.                                                    *)
(***************************************************************************)
MaxLoops == 2
MaxExternalEdits == 1

\* longest updated text handed to do_replace on its own
MaxAfter == 3

(***************************************************************************)
(* Paths.  "a" is given on the command line, "u" exists in the working     *)
(* tree without being given, "n" does not exist.                           *)
(***************************************************************************)
Paths == {"a", "u", "n"}

NL == "\n"
FENCE == "FENCE"

(***************************************************************************)
(* Text helpers (Python str operations used by the source).                *)
(***************************************************************************)
Last(s) == s[Len(s)]

Front(s) == SubSeq(s, 1, Len(s) - 1)

RECURSIVE Concat(_)
Concat(ss) == IF ss = <<>> THEN <<>> ELSE Head(ss) \o Concat(Tail(ss))

\* str.splitlines(): lines without their terminators; a final "\n" opens no
\* further line.
RECURSIVE splitlines(_)
splitlines(t) ==
    IF t = <<>> THEN <<>>
    ELSE IF \E i \in 1..Len(t) : t[i] = NL
         THEN LET i == CHOOSE k \in 1..Len(t) :
                           t[k] = NL /\ \A j \in 1..(k - 1) : t[j] # NL
              IN  <<SubSeq(t, 1, i - 1)>> \o splitlines(SubSeq(t, i + 1, Len(t)))
         ELSE <<t>>

\* "\n".join(lines)
RECURSIVE join(_)
join(lines) ==
    IF lines = <<>> THEN <<>>
    ELSE IF Len(lines) = 1 THEN lines[1]
    ELSE lines[1] \o <<NL>> \o join(Tail(lines))

\* line.startswith(FENCE)
startswith_fence(line) == line # <<>> /\ line[1] = FENCE

\* line.strip().endswith(Path(fname).name); the alphabet has no blank
\* other than the newline, which splitlines has removed.
endswith_name(line, fname) == line # <<>> /\ Last(line) = fname

\* first index at which sub occurs in t, 0 if none (str.find)
find(t, sub) ==
    LET hits == {i \in 1..(Len(t) - Len(sub) + 1) :
                    SubSeq(t, i, i + Len(sub) - 1) = sub}
    IN  IF hits = {} THEN 0
        ELSE CHOOSE i \in hits : \A j \in hits : i <= j

(***************************************************************************)
(* Coder.strip_quoted_wrapping.  ok = FALSE is the IndexError raised by    *)
(* res[0] on an empty list of lines.                                       *)
(***************************************************************************)
Raised(e) == [ok |-> FALSE, exc |-> e, text |-> <<>>]

Returned(t) == [ok |-> TRUE, exc |-> "", text |-> t]

strip_quoted_wrapping(res, fname) ==
    IF res = <<>> THEN Returned(res)
    ELSE
      LET l0 == splitlines(res)
          l1 == IF endswith_name(l0[1], fname) THEN Tail(l0) ELSE l0
      IN  IF l1 = <<>> THEN Raised("IndexError")
          ELSE
            LET l2 == IF startswith_fence(l1[1]) /\ startswith_fence(Last(l1))
                      THEN SubSeq(l1, 2, Len(l1) - 1)
                      ELSE l1
                j  == join(l2)
            IN  Returned(IF j # <<>> /\ Last(j) # NL THEN j \o <<NL>> ELSE j)

\* str.splitlines(keepends=True)
RECURSIVE splitkeep(_)
splitkeep(t) ==
    IF t = <<>> THEN <<>>
    ELSE IF \E i \in 1..Len(t) : t[i] = NL
         THEN LET i == CHOOSE k \in 1..Len(t) :
                           t[k] = NL /\ \A j \in 1..(k - 1) : t[j] # NL
              IN  <<SubSeq(t, 1, i)>> \o splitkeep(SubSeq(t, i + 1, Len(t)))
         ELSE <<t>>

(***************************************************************************)
(* findblock.replace_most_similar_chunk, the Chunk Matcher.  The module    *)
(* findblock is not among the sources; this follows section 4.1 of the     *)
(* specification.  An empty "before" is settled first (rule 4), then the   *)
(* exact substring (rule 1), then the run of lines equal to the lines of   *)
(* "before" (rule 2).  The alphabet has no blank inside a line, and a      *)
(* window of fewer than five lines scores 0.8 or more only when all its    *)
(* lines are equal, so rule 3 accepts what rule 2 accepts on these texts.  *)
(***************************************************************************)
NoMatch == [match |-> FALSE, text |-> <<>>]

Matched(t) == [match |-> TRUE, text |-> t]

replace_most_similar_chunk(content, before, after) ==
    IF before = <<>>
    THEN IF content = <<>> THEN Matched(after) ELSE NoMatch
    ELSE
      LET at == find(content, before)
      IN  IF at # 0
          THEN Matched(SubSeq(content, 1, at - 1) \o after
                       \o SubSeq(content, at + Len(before), Len(content)))
          ELSE
            LET cl   == splitlines(content)
                kl   == splitkeep(content)
                bl   == splitlines(before)
                n    == Len(bl)
                hits == {i \in 1..(Len(cl) - n + 1) : SubSeq(cl, i, i + n - 1) = bl}
            IN  IF hits = {} THEN NoMatch
                ELSE LET i == CHOOSE k \in hits : \A j \in hits : k <= j
                     IN  Matched(Concat(SubSeq(kl, 1, i - 1)) \o after
                                 \o Concat(SubSeq(kl, i + n, Len(kl))))

(***************************************************************************)
(* The texts, directives and responses the model draws its inputs from.    *)
(***************************************************************************)
X == <<"x", NL>>

Y == <<"y", NL>>

Z == <<"z", NL>>

Directive(p, o, u) == [path |-> p, original |-> o, updated |-> u]

\* What pattern.finditer yields on each response, in textual order.  The text
\* of a response is kept as its name here; a message keeps of it only
\* whether it was received whole.
Responses ==
    [ r_none    |-> <<>>,
      r_two     |-> <<Directive("a", X, Y), Directive("a", Y, Z)>>,
      r_nomatch |-> <<Directive("a", Z, Y), Directive("u", X, Y)>>,
      r_new     |-> <<Directive("n", <<>>, X), Directive("a", X, <<>>)>>,
      r_newbad  |-> <<Directive("n", X, Y), Directive("a", <<"a", NL>>, Y)>> ]

ResponseIds == DOMAIN Responses

Inputs == {"i1"}

\* Replies of the secondary model to the rewrite prompt for file fname.
EscResults(fname) == { <<FENCE, NL, "y", NL, FENCE, NL>>, <<fname, NL>> }

\* Replies of the secondary model to the commit-message prompt.
RawDrafts == { <<" ", "QUOTE", "m", "QUOTE", " ">>, <<" ">> }

\* What the user types at "Commit before the chat proceeds?".
Answers == { <<"y">>, <<"N", "O">>, <<"m", "2">> }

\* str.strip(chars) for a set of characters
RECURSIVE lstrip(_, _)
lstrip(t, chars) ==
    IF t # <<>> /\ t[1] \in chars THEN lstrip(Tail(t), chars) ELSE t

RECURSIVE rstrip(_, _)
rstrip(t, chars) ==
    IF t # <<>> /\ Last(t) \in chars THEN rstrip(Front(t), chars) ELSE t

strip(t, chars) == rstrip(lstrip(t, chars), chars)

Blank == {" ", NL}

\* str.lower()
lower(t) ==
    [i \in DOMAIN t |-> IF t[i] = "N" THEN "n" ELSE IF t[i] = "O" THEN "o" ELSE t[i]]

\* repo.head.commit.hexsha[:7] of the n-th commit of the session
HashOf(n) == <<"c1", "c2", "c3", "c4", "c5", "c6", "c7", "c8">>[n]

(***************************************************************************)
(* State.                                                                  *)
(***************************************************************************)
VARIABLES
    fnames,          \* Coder.fnames: the registered paths, in insertion order
    last_modified,   \* Coder.last_modified
    repo,            \* Coder.repo is set
    exists,          \* paths that exist in the working tree
    disk,            \* content of each path
    mtime,           \* st_mtime of each path
    now,             \* the clock that stamps writes
    tracked,         \* repo.git.ls_files()
    head,            \* content of each tracked path at HEAD
    ncommits,        \* commits made by the session
    done_messages,   \* Coder.done_messages
    cur_messages,    \* Coder.cur_messages
    num_control_c,   \* Coder.num_control_c
    pc,              \* where the session is
    exc,             \* the exception that ended the process, if any
    inp,             \* run_loop: inp
    messages,        \* run_loop: messages, the transcript of the turn
    content,         \* run_loop: content
    response,        \* update_files: the response whose directives are applied
    artifact,        \* content of tmp.last-edit.md
    idx,             \* update_files: position of the finditer loop
    edited,          \* update_files: edited
    outcomes,        \* history: what became of each directive of this call
    written,         \* history: paths written by this update_files call
    last_commit,     \* history: the commit call made by the last step
    nloops,          \* history: number of run_loop calls
    nexternal,       \* history: number of edits made outside the session
    modified,        \* history: a registered file was written since the
                     \* modification times were last compared (line 213)
    call,            \* do_replace on its own: fname, before_text, after_text
    replaced         \* do_replace on its own: what the call returned

vars == <<fnames, last_modified, repo, exists, disk, mtime,
          now, tracked, head, ncommits, done_messages, cur_messages,
          num_control_c, pc, exc, inp, messages, content, response, artifact, idx,
          edited, outcomes, written, last_commit, nloops, nexternal, modified,
          call, replaced>>

Range(s) == {s[i] : i \in DOMAIN s}

Max(S) == CHOOSE m \in S : \A k \in S : k <= m

Message(r, c) == [role |-> r, content |-> c]

(***************************************************************************)
(* Coder.get_last_modified.  stat() raises FileNotFoundError for a         *)
(* registered path that does not exist.                                    *)
(***************************************************************************)
all_exist(names) == Range(names) \subseteq exists

get_last_modified(names, mt) == Max({mt[f] : f \in Range(names)})

(***************************************************************************)
(* Coder.quoted_file, get_files_content, get_files_messages.               *)
(***************************************************************************)
quoted_file(fname) ==
    <<NL, fname, NL, FENCE, NL>> \o disk[fname] \o <<NL, FENCE, NL>>

RECURSIVE get_files_content(_)
get_files_content(names) ==
    IF names = <<>> THEN <<>>
    ELSE quoted_file(Head(names)) \o get_files_content(Tail(names))

get_files_messages ==
    << Message("user", <<"files_content_prefix">> \o get_files_content(fnames)),
       Message("assistant", <<"Ok.">>),
       Message("system", <<"files_content_suffix", "system_reminder">>) >>

(***************************************************************************)
(* Coder.commit.  raw and intr are what send returns for the commit        *)
(* message prompt, answer is what Prompt.ask returns.  history = <<>> and  *)
(* prefix = <<>> stand for None.                                           *)
(* The result carries the returned value, the exception raised, and the    *)
(* values of last_modified, head and ncommits the call leaves behind.      *)
(* git refuses a commit whose whole message is blank (GitCommandError).    *)
(* Every registered path exists whenever commit is called, so its calls    *)
(* of get_last_modified return.                                            *)
(***************************************************************************)
None == [none |-> TRUE, hash |-> "", message |-> <<>>]

Record(h, m) == [none |-> FALSE, hash |-> h, message |-> m]

is_dirty == \E f \in tracked : disk[f] # head[f]

git_diff(fname) == fname \in tracked /\ disk[fname] # head[fname]

dirty_fnames == {f \in Range(fnames) : git_diff(f)}

CommitOutcome(r, e, lm, hd, n) ==
    [ret |-> r, exc |-> e, last_modified |-> lm, head |-> hd, ncommits |-> n]

git_commit(commit_message, history, lm) ==
    IF commit_message = <<>> /\ history = <<>>
    THEN CommitOutcome(None, "GitCommandError", lm, head, ncommits)
    ELSE CommitOutcome(Record(HashOf(ncommits + 1), commit_message), "",
                       get_last_modified(fnames, mtime),
                       [f \in Paths |-> IF f \in dirty_fnames THEN disk[f] ELSE head[f]],
                       ncommits + 1)

\* the return of lines 500-502 is missing
commit_without_return(history, prefix, ask, raw, intr, answer) ==
    IF ~repo THEN CommitOutcome(None, "", last_modified, head, ncommits)
    ELSE IF ~is_dirty THEN CommitOutcome(None, "", last_modified, head, ncommits)
    ELSE IF intr
    THEN CommitOutcome(None, "KeyboardInterrupt", last_modified, head, ncommits)
    ELSE git_commit(prefix \o strip(strip(strip(raw, Blank), {"QUOTE"}), Blank),
                    history, last_modified)

commit(history, prefix, ask, raw, intr, answer) ==
    IF ~repo THEN CommitOutcome(None, "", last_modified, head, ncommits)
    ELSE IF ~is_dirty THEN CommitOutcome(None, "", last_modified, head, ncommits)
    ELSE IF dirty_fnames = {}
    THEN CommitOutcome(None, "", get_last_modified(fnames, mtime), head, ncommits)
    ELSE IF intr
    THEN CommitOutcome(None, "KeyboardInterrupt", last_modified, head, ncommits)
    ELSE
      LET drafted == prefix \o strip(strip(strip(raw, Blank), {"QUOTE"}), Blank)
          res     == strip(answer, Blank)
      IN  IF ~ask THEN git_commit(drafted, history, last_modified)
          ELSE IF lower(res) \in {<<"n">>, <<"n", "o">>}
          THEN CommitOutcome(None, "", get_last_modified(fnames, mtime), head, ncommits)
          ELSE git_commit(IF lower(res) \in {<<"y">>, <<"y", "e", "s">>}
                          THEN drafted ELSE res,
                          history, get_last_modified(fnames, mtime))

\* history: what a step records about the commit call it made
NoCall ==
    [called |-> FALSE, differs |-> FALSE, declined |-> FALSE, ret |-> None, exc |-> ""]

Call(c, ask, answer) ==
    [called |-> TRUE, differs |-> dirty_fnames # {},
     declined |-> ask /\ lower(strip(answer, Blank)) \in {<<"n">>, <<"n", "o">>},
     ret |-> c.ret, exc |-> c.exc]

(***************************************************************************)
(* Coder.do_replace on the working tree as it is.  ret is the returned     *)
(* value (True, or None as FALSE), exc the exception raised, touched and   *)
(* wrote say whether fname.touch() and fname.write_text(text) ran.         *)
(***************************************************************************)
Replaced(e, r, t, w, txt) ==
    [exc |-> e, ret |-> r, touched |-> t, wrote |-> w, text |-> txt]

do_replace(fname, before_text, after_text) ==
    LET b == strip_quoted_wrapping(before_text, fname)
        a == strip_quoted_wrapping(after_text, fname)
    IN  IF ~b.ok THEN Replaced(b.exc, FALSE, FALSE, FALSE, <<>>)
        ELSE IF ~a.ok THEN Replaced(a.exc, FALSE, FALSE, FALSE, <<>>)
        ELSE
          LET touch == fname \notin exists /\ b.text = <<>>
          IN  IF fname \notin exists /\ ~touch
              THEN Replaced("FileNotFoundError", FALSE, FALSE, FALSE, <<>>)
              ELSE
                LET cont == IF touch THEN <<>> ELSE disk[fname]
                IN  IF b.text = <<>> /\ cont = <<>>
                    THEN Replaced("", TRUE, touch, TRUE, a.text)
                    ELSE
                      LET new_content ==
                              replace_most_similar_chunk(cont, b.text, a.text)
                      IN  IF ~new_content.match \/ new_content.text = <<>>
                          THEN Replaced("", FALSE, touch, FALSE, <<>>)
                          ELSE Replaced("", TRUE, touch, TRUE, new_content.text)

(***************************************************************************)
(* Coder.do_gpt_powered_replace.  res and interrupted are what send        *)
(* returns for the rewrite prompt.                                         *)
(***************************************************************************)
Rewritten(e, w, txt) == [exc |-> e, wrote |-> w, text |-> txt]

\* the test of line 457 is missing: what was received is written
do_gpt_powered_replace_partial(fname, res, interrupted) ==
    LET s == strip_quoted_wrapping(res, fname)
    IN  IF ~s.ok THEN Rewritten(s.exc, FALSE, <<>>)
        ELSE Rewritten("", TRUE, s.text)

do_gpt_powered_replace(fname, res, interrupted) ==
    IF interrupted THEN Rewritten("", FALSE, <<>>)
    ELSE LET s == strip_quoted_wrapping(res, fname)
         IN  IF ~s.ok THEN Rewritten(s.exc, FALSE, <<>>)
             ELSE Rewritten("", TRUE, s.text)

\* the session hands do_replace its arguments inside update_files
NoArguments == [fname |-> "a", before_text |-> <<>>, after_text |-> <<>>]

(***************************************************************************)
(* The state after construction: Coder.__init__ has registered "a", which  *)
(* exists; set_repo has found a repository that tracks "a" and "u", or     *)
(* none.  Each tracked file may differ from HEAD.                          *)
(***************************************************************************)
Init ==
    /\ fnames = <<"a">>
    /\ last_modified = 0
    /\ repo \in BOOLEAN
    /\ exists = {"a", "u"}
    /\ disk = [f \in Paths |-> IF f \in {"a", "u"} THEN X ELSE <<>>]
    /\ mtime = [f \in Paths |-> IF f \in {"a", "u"} THEN 1 ELSE 0]
    /\ now = 2
    /\ tracked = IF repo THEN {"a", "u"} ELSE {}
    /\ head \in [Paths -> {X, Y}]
    /\ head["n"] = X
    /\ head["a"] = X \/ head["u"] = X
    /\ (~repo => head = [f \in Paths |-> X])
    /\ ncommits = 0
    /\ done_messages = <<>>
    /\ cur_messages = <<>>
    /\ num_control_c = 0
    /\ pc = "main"
    /\ exc = ""
    /\ inp = ""
    /\ messages = <<>>
    /\ content = <<>>
    /\ response = "r_none"
    /\ artifact = <<>>
    /\ idx = 0
    /\ edited = {}
    /\ outcomes = <<>>
    /\ written = {}
    /\ last_commit = NoCall
    /\ nloops = 0
    /\ nexternal = 0
    /\ modified = FALSE
    /\ call = NoArguments
    /\ replaced = Replaced("", FALSE, FALSE, FALSE, <<>>)

\* args.commit_dirty, whose default is off
commit_dirty == FALSE

\* what no step of the session changes
UNCHANGED_config == UNCHANGED <<repo, tracked, call, replaced>>

UNCHANGED_tree == UNCHANGED <<exists, disk, mtime, now>>

UNCHANGED_git == UNCHANGED <<last_modified, head, ncommits>>

\* the locals of run_loop and update_files
UNCHANGED_turn ==
    UNCHANGED <<inp, messages, content, response, idx, edited, outcomes, written>>

\* run_loop is left: its locals are gone
leave_turn ==
    /\ inp' = ""
    /\ messages' = <<>>
    /\ content' = <<>>
    /\ response' = "r_none"
    /\ idx' = 0
    /\ edited' = {}
    /\ outcomes' = <<>>
    /\ written' = {}

(***************************************************************************)
(* Coder.run: the handler of KeyboardInterrupt around run_loop.  n is the  *)
(* value of num_control_c when the exception arrives.                      *)
(***************************************************************************)
\* the first KeyboardInterrupt already ends the loop
run_interrupted_once(n) ==
    /\ num_control_c' = n + 1
    /\ pc' = IF n + 1 >= 1 THEN "exited" ELSE "get_input"
    /\ exc' = exc

run_interrupted(n) ==
    /\ num_control_c' = n + 1
    /\ pc' = IF n + 1 >= 2 THEN "exited" ELSE "get_input"
    /\ exc' = exc

\* an exception that Coder.run does not handle ends the process
run_raised(e) ==
    /\ pc' = "crashed"
    /\ exc' = e

(***************************************************************************)
(* main: coder.commit(ask=not args.commit_dirty, prefix="WIP: ") and then  *)
(* coder.run(), which empties both message lists and the counter.          *)
(***************************************************************************)
main_commit(raw, intr, answer) ==
    /\ pc = "main"
    /\ LET c == commit(<<>>, <<"WIP: ">>, ~commit_dirty, raw, intr, answer)
       IN  /\ last_commit' = Call(c, ~commit_dirty, answer)
           /\ last_modified' = c.last_modified
           /\ head' = c.head
           /\ ncommits' = c.ncommits
           /\ IF c.exc # ""
              THEN run_raised(c.exc)
              ELSE pc' = "get_input" /\ exc' = exc
    /\ UNCHANGED <<fnames, done_messages, cur_messages, num_control_c, artifact,
                   nloops, nexternal, modified>>
    /\ UNCHANGED_config /\ UNCHANGED_tree /\ UNCHANGED_turn

(***************************************************************************)
(* Coder.run_loop, lines 207-209: get_input returns None at end of input,  *)
(* or the prompt is interrupted.                                           *)
(***************************************************************************)
get_input_eof ==
    /\ pc = "get_input"
    /\ nloops < MaxLoops
    /\ nloops' = nloops + 1
    /\ last_commit' = NoCall
    /\ UNCHANGED <<fnames, done_messages, cur_messages, num_control_c, pc, exc,
                   artifact, nexternal, modified>>
    /\ UNCHANGED_config /\ UNCHANGED_tree /\ UNCHANGED_git /\ UNCHANGED_turn

get_input_interrupt ==
    /\ pc = "get_input"
    /\ nloops < MaxLoops
    /\ nloops' = nloops + 1
    /\ last_commit' = NoCall
    /\ run_interrupted(num_control_c)
    /\ UNCHANGED <<fnames, done_messages, cur_messages, artifact, nexternal,
                   modified>>
    /\ UNCHANGED_config /\ UNCHANGED_tree /\ UNCHANGED_git /\ UNCHANGED_turn

(***************************************************************************)
(* Someone edits a registered file while the session waits at the prompt   *)
(* (in Next: the file given on the command line).                          *)
(***************************************************************************)
E == <<"e", NL>>

external_edit(f) ==
    /\ pc = "get_input"
    /\ nexternal < MaxExternalEdits
    /\ f \in Range(fnames) \cap exists
    /\ nexternal' = nexternal + 1
    /\ modified' = TRUE
    /\ disk' = [disk EXCEPT ![f] = E]
    /\ mtime' = [mtime EXCEPT ![f] = now]
    /\ now' = now + 1
    /\ last_commit' = NoCall
    /\ UNCHANGED <<fnames, done_messages, cur_messages, num_control_c, pc, exc,
                   artifact, nloops, exists>>
    /\ UNCHANGED_config /\ UNCHANGED_git /\ UNCHANGED_turn

(***************************************************************************)
(* Coder.run_loop, lines 211-233: an input is accepted, the check for      *)
(* edits made outside the session, the input is appended and the           *)
(* transcript of the turn is built.                                        *)
(***************************************************************************)
Ok == Message("assistant", <<"Ok.">>)

\* the tail of the transcript is archived, file frame included
fold_local_edits_frame(done, cur) ==
    done \o get_files_messages \o cur
        \o <<Message("user", <<"files_content_local_edits">>), Message("assistant", <<"Ok.">>)>>

\* lines 217-221
fold_local_edits(done, cur) ==
    done \o cur \o <<Message("user", <<"files_content_local_edits">>), Ok>>

\* line 222 is missing
cleared_kept(cur) == cur

\* line 222
cleared(cur) == <<>>

\* lines 224-226
append_input(cur, i) == cur \o <<Message("user", <<"inp", i>>)>>

\* lines 228-233
transcript(done, cur) ==
    <<Message("system", <<"main_system", "system_reminder">>)>>
        \o done \o get_files_messages \o cur

begin_turn(i, raw, intr, answer) ==
    /\ pc = "get_input"
    /\ nloops < MaxLoops
    /\ nloops' = nloops + 1
    /\ IF ~all_exist(fnames)
       THEN /\ run_raised("FileNotFoundError")
            /\ num_control_c' = 0
            /\ last_commit' = NoCall
            /\ UNCHANGED <<done_messages, cur_messages, inp, messages>>
            /\ UNCHANGED_git
       ELSE IF last_modified < get_last_modified(fnames, mtime)
       THEN LET c == commit(<<>>, <<>>, TRUE, raw, intr, answer)
            IN  /\ last_commit' = Call(c, TRUE, answer)
                /\ last_modified' = c.last_modified
                /\ head' = c.head
                /\ ncommits' = c.ncommits
                /\ IF c.exc = "KeyboardInterrupt"
                   THEN /\ run_interrupted(0)
                        /\ UNCHANGED <<done_messages, cur_messages, inp, messages>>
                   ELSE IF c.exc # ""
                   THEN /\ run_raised(c.exc)
                        /\ num_control_c' = 0
                        /\ UNCHANGED <<done_messages, cur_messages, inp, messages>>
                   ELSE /\ done_messages' = fold_local_edits(done_messages, cur_messages)
                        /\ cur_messages' = append_input(cleared(cur_messages), i)
                        /\ inp' = i
                        /\ messages' = transcript(done_messages', cur_messages')
                        /\ num_control_c' = 0
                        /\ pc' = "send"
                        /\ exc' = exc
       ELSE /\ last_commit' = NoCall
            /\ cur_messages' = append_input(cur_messages, i)
            /\ inp' = i
            /\ messages' = transcript(done_messages, cur_messages')
            /\ num_control_c' = 0
            /\ pc' = "send"
            /\ exc' = exc
            /\ UNCHANGED done_messages
            /\ UNCHANGED_git
    /\ UNCHANGED <<fnames, artifact, nexternal, content, response, idx, edited,
                   outcomes, written>>
    /\ UNCHANGED_config /\ UNCHANGED_tree
    /\ modified' = IF pc' = "send" THEN FALSE ELSE modified

(***************************************************************************)
(* Coder.run_loop, lines 237-249: the transcript is sent.  rid is the      *)
(* response received, interrupted says that receiving it was cancelled,    *)
(* finish is the finish_reason of the last chunk.  With pretty output a    *)
(* finish_reason other than stop fails the assertion of                    *)
(* show_send_output_color, which send does not handle.                     *)
(***************************************************************************)
FinishReasons == {"stop", "length"}

\* Coder.pretty: args.pretty, whose default is on
pretty == TRUE

\* line 239 is missing
response_content_unmarked(rid, interrupted) ==
    IF interrupted THEN <<"partial">>
    ELSE <<"response">>

\* lines 237-239
response_content(rid, interrupted) ==
    IF interrupted THEN <<"partial", "\n^C KeyboardInterrupt">>
    ELSE <<"response">>

\* the artifact is left as it was
last_edit_kept(old, text) == old

\* line 241: Path("tmp.last-edit.md").write_text(content)
last_edit(old, text) == text

send_main(rid, interrupted, finish) ==
    /\ pc = "send"
    /\ last_commit' = NoCall
    /\ IF pretty /\ finish # "stop"
       THEN /\ run_raised("AssertionError")
            /\ UNCHANGED <<artifact, cur_messages>>
            /\ UNCHANGED_turn
       ELSE /\ artifact' = last_edit(artifact, response_content(rid, interrupted))
            /\ cur_messages' =
                   cur_messages \o <<Message("assistant", response_content(rid, interrupted))>>
            /\ exc' = exc
            /\ IF interrupted
               THEN /\ pc' = "get_input"
                    /\ leave_turn
               ELSE /\ pc' = "update_files"
                    /\ content' = response_content(rid, interrupted)
                    /\ response' = rid
                    /\ idx' = 1
                    /\ edited' = {}
                    /\ outcomes' = <<>>
                    /\ written' = {}
                    /\ UNCHANGED <<inp, messages>>
    /\ UNCHANGED <<fnames, done_messages, num_control_c, nloops, nexternal,
                   modified>>
    /\ UNCHANGED_config /\ UNCHANGED_tree /\ UNCHANGED_git

(***************************************************************************)
(* Coder.update_files: one pass of the loop over the directives of the     *)
(* response, lines 390-408.  allow is the answer to Confirm.ask, res and   *)
(* eintr are what send returns to do_gpt_powered_replace.  An Exception    *)
(* leaves update_files and is caught by run_loop (lines 253-260), which    *)
(* ends the turn.                                                          *)
(***************************************************************************)
directives == Responses[response]

Allow == {"yes", "no"}

\* line 393
asks(path) == path \notin Range(fnames)

\* the path is registered before the question is asked
authorize_early(names, path, allow) ==
    IF path \notin Range(names) THEN Append(names, path) ELSE names

\* lines 393-402: the registry after the question of line 398 is answered
authorize(names, path, allow) ==
    IF path \notin Range(names) /\ allow = "yes" THEN Append(names, path) ELSE names

\* line 404 and the place it has in the loop
counted(done, path) == done \cup {path}

\* the text is added to what the file holds
write_text_append(path, text) ==
    /\ exists' = exists \cup {path}
    /\ disk' = [disk EXCEPT ![path] = disk[path] \o text]
    /\ mtime' = [mtime EXCEPT ![path] = now]
    /\ now' = now + 1

\* Path.write_text and Path.touch stamp the file with the time of the write
write_text(path, text) ==
    /\ exists' = exists \cup {path}
    /\ disk' = [disk EXCEPT ![path] = text]
    /\ mtime' = [mtime EXCEPT ![path] = now]
    /\ now' = now + 1

\* the handler is missing: the exception leaves run_loop and Coder.run
caught_nowhere(err) ==
    /\ pc' = "crashed"
    /\ exc' = err
    /\ leave_turn

\* lines 253-260: the handler of Exception around update_files
caught(err) ==
    /\ pc' = "get_input"
    /\ exc' = exc
    /\ leave_turn

update_files_step(allow, res, eintr) ==
    /\ pc = "update_files"
    /\ idx <= Len(directives)
    /\ last_commit' = NoCall
    /\ LET d    == directives[idx]
           path == d.path
       IN  /\ fnames' = authorize(fnames, path, allow)
           /\ IF asks(path) /\ allow = "no"
              THEN /\ outcomes' = Append(outcomes, "REJECTED")
                   /\ idx' = idx + 1
                   /\ UNCHANGED <<edited, written, pc, exc, inp, messages,
                                  content, response>>
                   /\ UNCHANGED_tree
              ELSE
                LET r == do_replace(path, d.original, d.updated)
                    g == do_gpt_powered_replace(path, res, eintr)
                IN  IF r.exc # "" \/ (~r.ret /\ g.exc # "")
                    THEN /\ caught(IF r.exc # "" THEN r.exc ELSE g.exc)
                         /\ UNCHANGED_tree
                    ELSE /\ edited' = counted(edited, path)
                         /\ idx' = idx + 1
                         /\ UNCHANGED <<pc, exc, inp, messages, content, response>>
                         /\ IF r.ret
                            THEN /\ outcomes' = Append(outcomes, "APPLIED")
                                 /\ write_text(path, r.text)
                                 /\ written' = written \cup {path}
                            ELSE /\ outcomes' =
                                       Append(outcomes,
                                              IF eintr THEN "CANCELLED" ELSE "ESCALATED")
                                 /\ IF g.wrote
                                    THEN /\ write_text(path, g.text)
                                         /\ written' = written \cup {path}
                                    ELSE /\ UNCHANGED written
                                         /\ UNCHANGED_tree
    /\ UNCHANGED <<done_messages, cur_messages, num_control_c, artifact, nloops,
                   nexternal>>
    /\ UNCHANGED_config /\ UNCHANGED_git
    /\ modified' = (modified \/ mtime' # mtime)

(***************************************************************************)
(* Coder.run_loop, lines 252 and 259-281: update_files has returned.       *)
(* raw and intr are what send returns to commit.  The class Coder defines  *)
(* no attribute check_for_local_edits, so line 274 raises AttributeError.  *)
(***************************************************************************)
has_check_for_local_edits == FALSE

\* lines 263-272
saved_message(res) ==
    IF ~res.none THEN <<"files_content_gpt_edits", res.hash>> \o res.message
    ELSE <<"files_content_gpt_no_edits">>

\* lines 275-279
fold_gpt_edits(done, cur, saved) ==
    done \o cur \o <<Message("user", saved), Ok>>

end_turn(raw, intr) ==
    /\ pc = "update_files"
    /\ idx > Len(directives)
    /\ IF edited = {}
       THEN /\ pc' = "get_input"
            /\ last_commit' = NoCall
            /\ leave_turn
            /\ UNCHANGED <<done_messages, cur_messages, num_control_c, exc>>
            /\ UNCHANGED_git
       ELSE LET c == commit(cur_messages, <<>>, FALSE, raw, intr, <<>>)
            IN  /\ last_commit' = Call(c, FALSE, <<>>)
                /\ last_modified' = c.last_modified
                /\ head' = c.head
                /\ ncommits' = c.ncommits
                /\ IF c.exc = "KeyboardInterrupt"
                   THEN /\ run_interrupted(num_control_c)
                        /\ leave_turn
                        /\ UNCHANGED <<done_messages, cur_messages>>
                   ELSE IF c.exc # ""
                   THEN /\ run_raised(c.exc)
                        /\ UNCHANGED <<done_messages, cur_messages, num_control_c>>
                        /\ UNCHANGED_turn
                   ELSE IF ~has_check_for_local_edits
                   THEN /\ run_raised("AttributeError")
                        /\ UNCHANGED <<done_messages, cur_messages, num_control_c>>
                        /\ UNCHANGED_turn
                   ELSE /\ done_messages' =
                               fold_gpt_edits(done_messages, cur_messages, saved_message(c.ret))
                        /\ cur_messages' = <<>>
                        /\ pc' = "get_input"
                        /\ leave_turn
                        /\ UNCHANGED <<num_control_c, exc>>
    /\ UNCHANGED <<fnames, artifact, nloops, nexternal, modified>>
    /\ UNCHANGED_config /\ UNCHANGED_tree

Next ==
    \/ \E raw \in RawDrafts, intr \in BOOLEAN, answer \in Answers :
           main_commit(raw, intr, answer)
    \/ get_input_eof
    \/ get_input_interrupt
    \/ \E f \in {"a"} : external_edit(f)
    \/ \E i \in Inputs, raw \in RawDrafts, intr \in BOOLEAN, answer \in Answers :
           begin_turn(i, raw, intr, answer)
    \/ \E rid \in ResponseIds, interrupted \in BOOLEAN, finish \in FinishReasons :
           send_main(rid, interrupted, finish)
    \/ /\ pc = "update_files"
       /\ idx <= Len(directives)
       /\ \E allow \in Allow, eintr \in BOOLEAN, res \in EscResults(directives[idx].path) :
              update_files_step(allow, res, eintr)
    \/ \E raw \in RawDrafts, intr \in BOOLEAN : end_turn(raw, intr)

Spec == Init /\ [][Next]_vars

(***************************************************************************)
(* Coder.do_replace on its own: one call on a working tree in which "a"    *)
(* exists, empty or not, and "n" does not.  The updated text of a          *)
(* directive is what group 6 of Coder.pattern matches (line 384): whole    *)
(* lines, each ended by a newline, or nothing.                             *)
(***************************************************************************)
Tokens == {"x", "a", NL, FENCE}

Texts == UNION {[1..k -> Tokens] : k \in 0..MaxAfter}

Updated == {t \in Texts : t = <<>> \/ Last(t) = NL}

InitDoReplace ==
    /\ call \in [fname : {"a", "n"}, before_text : {<<>>, X}, after_text : Updated]
    /\ replaced = Replaced("", FALSE, FALSE, FALSE, <<>>)
    /\ pc = "do_replace"
    /\ fnames = <<"a">>
    /\ exists = {"a", "u"}
    /\ disk \in {[f \in Paths |-> IF f = "a" THEN c ELSE IF f = "u" THEN X ELSE <<>>] :
                    c \in {<<>>, X}}
    /\ mtime = [f \in Paths |-> IF f \in {"a", "u"} THEN 1 ELSE 0]
    /\ now = 2
    /\ repo = FALSE
    /\ tracked = {}
    /\ head = [f \in Paths |-> X]
    /\ last_modified = 0
    /\ ncommits = 0
    /\ done_messages = <<>>
    /\ cur_messages = <<>>
    /\ num_control_c = 0
    /\ exc = ""
    /\ inp = ""
    /\ messages = <<>>
    /\ content = <<>>
    /\ response = "r_none"
    /\ artifact = <<>>
    /\ idx = 0
    /\ edited = {}
    /\ outcomes = <<>>
    /\ written = {}
    /\ last_commit = NoCall
    /\ nloops = 0
    /\ nexternal = 0
    /\ modified = FALSE

\* lines 412-435
call_do_replace ==
    /\ pc = "do_replace"
    /\ LET r == do_replace(call.fname, call.before_text, call.after_text)
       IN  /\ replaced' = r
           /\ pc' = "replaced"
           /\ IF r.wrote THEN write_text(call.fname, r.text) ELSE UNCHANGED_tree
    /\ UNCHANGED <<fnames, done_messages, cur_messages, num_control_c, exc, artifact,
                   last_commit, nloops, nexternal, modified, call, repo, tracked>>
    /\ UNCHANGED_git /\ UNCHANGED_turn

NextDoReplace == call_do_replace

SpecDoReplace == InitDoReplace /\ [][NextDoReplace]_vars

(***************************************************************************)
(* Properties.                                                             *)
(***************************************************************************)
update_files_returned == pc = "update_files" /\ idx > Len(directives)

\* the step is one pass of the update_files loop that ended in outcome o
pass_with(o) ==
    /\ pc = "update_files"
    /\ Len(outcomes') = Len(outcomes) + 1
    /\ outcomes'[Len(outcomes')] = o

\* an input is accepted and appended in this step
input_appended == pc = "get_input" /\ pc' = "send"

input_message == Message("user", <<"inp", inp'>>)

\* C1: in every turn in which update_files returns a non-empty edited set
\* and commit returns, run_loop appends the active messages and the outcome
\* marker to the archive, empties the active buffer and returns to read the
\* next input.
C1_AppliedTurnFoldsAndReturns ==
    [][(update_files_returned /\ edited # {} /\ last_commit'.exc = "")
         => /\ last_commit'.called
            /\ done_messages' = done_messages \o cur_messages
                   \o <<Message("user", saved_message(last_commit'.ret)), Ok>>
            /\ cur_messages' = <<>>
            /\ pc' = "get_input"]_vars

\* C2: once startup is over (run_loop has been entered), no error ends the
\* process: the session never stops on an unhandled exception.
C2_NoErrorEndsSession == pc = "crashed" => nloops = 0

\* C3: update_files is left only when no directive after the current one
\* remains unprocessed: a failing directive does not keep later ones from
\* being processed.
C3_LaterDirectivesProcessed ==
    [][(pc = "update_files" /\ pc' # "update_files") => idx >= Len(directives)]_vars

\* C4: a path is in the edited set that update_files returns only if a
\* directive for that path wrote the file during the call.
C4_EditedOnlyIfWritten == update_files_returned => edited \subseteq written

\* C5: a directive on an unregistered path whose authorization is denied
\* changes no file, not the registry and not the edited set, and the loop goes
\* on with the next directive.
C5_RejectedNoSideEffect ==
    [][pass_with("REJECTED")
         => /\ exists' = exists /\ disk' = disk /\ mtime' = mtime
            /\ fnames' = fnames
            /\ edited' = edited /\ written' = written
            /\ directives[idx].path \notin Range(fnames') \cup edited'
            /\ pc' = "update_files" /\ idx' = idx + 1 /\ response' = response]_vars

\* a denied directive for the new file "n" was followed by the processing of
\* the next directive of the response
C5_Witness ==
    /\ pc = "update_files"
    /\ Len(outcomes) = 2
    /\ outcomes[1] = "REJECTED"
    /\ directives[1].path = "n"
    /\ "n" \notin exists
    /\ outcomes[2] = "ESCALATED"

\* C6: when the escalation of a directive is cancelled while its response is
\* received, the working tree is what it was before the directive.
C6_CancelledEscalationWritesNothing ==
    [][pass_with("CANCELLED")
         => exists' = exists /\ disk' = disk /\ mtime' = mtime]_vars

\* an escalation was cancelled (the matcher had found nothing to replace)
C6_Witness ==
    /\ pc = "update_files"
    /\ Len(outcomes) >= 1
    /\ outcomes[Len(outcomes)] = "CANCELLED"
    /\ written = {}

\* C7 as stated: the active buffer is empty whenever run_loop begins to
\* handle a newly read input, so that the input is appended to an empty
\* buffer.
C7_ActiveBufferEmptyAtCycleStart ==
    [][input_appended => cur_messages' = <<input_message>>]_vars

\* C7 as amended: when the input is appended the active buffer holds only
\* that input if the cycle folded the buffer (edits made outside were
\* detected) or nothing was in it, and otherwise it still holds the messages
\* of the earlier turns, followed by the input.
C7_ActiveBufferEmptyOnlyAfterFold ==
    [][input_appended
         => IF last_commit'.called
            THEN /\ cur_messages' = <<input_message>>
                 /\ Len(done_messages') = Len(done_messages) + Len(cur_messages) + 2
            ELSE /\ cur_messages' = cur_messages \o <<input_message>>
                 /\ done_messages' = done_messages]_vars

\* a cycle that folded a non-empty active buffer, and holds the input only
C7_Witness ==
    /\ pc = "send"
    /\ last_commit.called
    /\ Len(done_messages) > 2
    /\ Len(cur_messages) = 1

\* C8: the archive never holds a message of the file frame (the listing of
\* the files, or its system message).
is_frame(m) ==
    \/ m.content[1] \in {"files_content_prefix", "files_content_suffix"}
    \/ m.role = "system"

C8_NoFrameInArchive ==
    \A i \in DOMAIN done_messages : ~is_frame(done_messages[i])

\* the archive holds folded messages while the transcript sent carries the
\* file frame
C8_Witness ==
    /\ pc = "send"
    /\ Len(done_messages) > 2
    /\ \E i \in DOMAIN messages : messages[i].content[1] = "files_content_prefix"

\* C9 as stated: commit returns none when no registered file differs from
\* HEAD and otherwise a record with a non-empty hash and message.
C9_RecordWheneverFilesDiffer ==
    last_commit.called
      => IF ~last_commit.differs THEN last_commit.ret.none
         ELSE /\ ~last_commit.ret.none
              /\ last_commit.ret.hash # ""
              /\ last_commit.ret.message # <<>>

\* C9 as amended: commit returns none when no registered file differs from
\* HEAD; when one differs it returns a record, with a non-empty hash, unless
\* an exception ended the call or the user declined the commit.
C9_RecordUnlessDeclinedOrRaised ==
    last_commit.called
      => /\ ~last_commit.differs => (last_commit.ret.none /\ last_commit.exc = "")
         /\ last_commit.differs
              => (~last_commit.ret.none
                    <=> (last_commit.exc = "" /\ ~last_commit.declined))
         /\ ~last_commit.ret.none => last_commit.ret.hash # ""

\* commit was called with a file that differs from HEAD and returned a record
C9_Witness ==
    /\ last_commit.called
    /\ last_commit.differs
    /\ ~last_commit.ret.none
    /\ ncommits = 1

\* C10: whenever commit finds no registered file that differs from the last
\* commit, it returns none and last_modified is the greatest modification
\* time of the registered files.
C10_BaselineAdvancedWhenNothingDiffers ==
    (last_commit.called /\ repo /\ ~last_commit.differs)
      => /\ last_commit.ret.none
         /\ last_modified = get_last_modified(fnames, mtime)

\* an earlier turn of the session has sent its transcript
turn_before == done_messages # <<>> \/ cur_messages # <<>>

\* C11: a turn runs the step for edits made outside the session (the commit
\* that asks, the fold of the active buffer with the local-edits marker, the
\* emptying of the buffer) only if a registered file was modified since the
\* previous turn: when none was, the turn archives nothing and keeps the
\* active buffer.
C11_NoLocalEditsStepWithoutModification ==
    [][(input_appended /\ turn_before /\ ~modified)
         => /\ ~last_commit'.called
            /\ done_messages' = done_messages
            /\ cur_messages' = cur_messages \o <<input_message>>]_vars

\* line 211 is reached: get_input has returned an input
input_accepted ==
    pc = "get_input" /\ (pc' \in {"send", "crashed"} \/ last_commit'.called)

\* the handler of lines 197-201 runs: a KeyboardInterrupt has left run_loop
cancellation_reaches_run == num_control_c' = num_control_c + 1

\* C12: the session ends exactly when a second cancellation reaches run with
\* no input accepted since the first, a single one never ends it, the count
\* is zero after each accepted input (one when the turn itself is then
\* cancelled), and from the first cancellation to the second the session
\* writes no file.
C12_TwoCancellationsEndSession ==
    [][/\ (pc # "exited" /\ pc' = "exited")
            => (cancellation_reaches_run /\ num_control_c = 1)
       /\ (cancellation_reaches_run /\ num_control_c = 1 /\ ~input_accepted)
            => pc' = "exited"
       /\ (cancellation_reaches_run /\ (num_control_c = 0 \/ input_accepted))
            => (pc' = "get_input" /\ num_control_c' = 1)
       /\ (input_accepted /\ pc' # "get_input") => num_control_c' = 0
       /\ (num_control_c = 1 /\ nexternal' = nexternal)
            => (exists' = exists /\ disk' = disk /\ mtime' = mtime)]_vars

\* a turn was cancelled while the commit message was drafted, the next
\* cancellation came at the prompt and ended the session
C12_Witness ==
    /\ pc = "exited"
    /\ num_control_c = 2
    /\ cur_messages # <<>>

\* send has returned interrupted: run_loop returns at line 249
receive_cancelled == pc = "send" /\ pc' = "get_input"

interrupted_message ==
    Message("assistant", <<"partial", "\n^C KeyboardInterrupt">>)

\* C13: when receiving the response of the main model is cancelled, the
\* partial response followed by the interruption marker is appended to the
\* active buffer as the assistant message and run_loop returns: from the
\* cancellation on no file is written, no commit is made or attempted and
\* the archive is unchanged.
C13_CancelledReceiveEndsTurn ==
    [][receive_cancelled
         => /\ cur_messages' = cur_messages \o <<interrupted_message>>
            /\ done_messages' = done_messages
            /\ exists' = exists /\ disk' = disk /\ mtime' = mtime
            /\ head' = head /\ ncommits' = ncommits
            /\ last_modified' = last_modified
            /\ ~last_commit'.called
            /\ fnames' = fnames
            /\ idx' = 0 /\ outcomes' = <<>> /\ edited' = {}]_vars

\* a turn ended by a cancelled response, in a repository with uncommitted
\* changes
C13_Witness ==
    /\ pc = "get_input"
    /\ cur_messages # <<>>
    /\ Last(cur_messages) = interrupted_message
    /\ is_dirty

\* send has returned, with the whole response or a part of it
send_returned == pc = "send" /\ pc' \in {"get_input", "update_files"}

\* C14: when send returns, the response (with the marker if it was cut short)
\* is written to tmp.last-edit.md and the same text is appended to the active
\* buffer as the assistant message, before update_files starts; the file keeps
\* that text while the directives are processed and when the turn ends,
\* whatever becomes of the directives.
C14_ArtifactHoldsResponse ==
    [][/\ send_returned
            => /\ artifact' # <<>>
               /\ cur_messages' = cur_messages \o <<Message("assistant", artifact')>>
               /\ pc' = "update_files" => (content' = artifact' /\ idx' = 1)
       /\ pc = "update_files"
            => (artifact' = artifact /\ artifact = Last(cur_messages).content)]_vars

\* update_files has raised after the turn's response was written: the new
\* file it registered was never created
C14_Witness ==
    /\ pc = "get_input"
    /\ artifact = <<"response">>
    /\ cur_messages # <<>>
    /\ Last(cur_messages).content = artifact
    /\ ~all_exist(fnames)

\* the text ended by one newline
one_newline(t) == IF t = <<>> THEN <<>> ELSE rstrip(t, {NL}) \o <<NL>>

\* the text has a line that is not blank, and no fence
plain_text(t) == Range(t) \cap {FENCE} = {} /\ Range(t) \ {NL} # {}

\* C15: for every updated text, do_replace called with an empty original
\* text on an existing empty file returns True and leaves in the file the
\* updated text, ended by exactly one newline.  Stated for the updated texts
\* that are neither blank nor fenced, where what the file is to hold is
\* beyond doubt.
C15_EmptyOriginalFillsEmptyFile ==
    [][(/\ pc = "do_replace"
        /\ call.before_text = <<>>
        /\ call.fname \in exists
        /\ disk[call.fname] = <<>>
        /\ plain_text(call.after_text))
         => /\ replaced'.exc = ""
            /\ replaced'.ret
            /\ disk'[call.fname] = one_newline(call.after_text)]_vars

\* what the matcher returns for directive d on the working tree as it is
matcher_result(d) ==
    replace_most_similar_chunk(disk[d.path],
                               strip_quoted_wrapping(d.original, d.path).text,
                               strip_quoted_wrapping(d.updated, d.path).text)

\* do_replace hands directive d to the matcher (line 429), which succeeds
matcher_succeeds(d) ==
    /\ d.path \in exists
    /\ strip_quoted_wrapping(d.original, d.path).ok
    /\ strip_quoted_wrapping(d.updated, d.path).ok
    /\ ~(strip_quoted_wrapping(d.original, d.path).text = <<>> /\ disk[d.path] = <<>>)
    /\ matcher_result(d).match

\* C16: whenever the matcher succeeds on a directive whose path is
\* registered or has just been authorized, whatever it returns is written to
\* the file and the directive is applied without the rewrite prompt; the
\* rewrite prompt is used only when the matcher found no match.
C16_MatchIsAppliedWithoutEscalation ==
    [][(/\ pc = "update_files"
        /\ idx <= Len(directives)
        /\ directives[idx].path \in Range(fnames')
        /\ matcher_succeeds(directives[idx]))
         => /\ pass_with("APPLIED")
            /\ disk'[directives[idx].path] = matcher_result(directives[idx]).text]_vars

\* the step calls commit, and the drafting of the message is interrupted
drafting_interrupted == last_commit'.called /\ last_commit'.exc = "KeyboardInterrupt"

\* C17: a commit call whose message drafting is interrupted stages nothing
\* and creates no commit, and leaves last_modified alone, so that the next
\* turn of the session finds the registered files newer than last_modified
\* and runs the step for uncommitted changes again.
C17_InterruptedDraftingCommitsNothing ==
    [][drafting_interrupted
         => /\ head' = head
            /\ ncommits' = ncommits
            /\ last_commit'.ret.none
            /\ last_modified' = last_modified
            /\ pc' = "get_input"
                 => last_modified' < get_last_modified(fnames', mtime')]_vars

\* update_files is left before its loop has ended, or do_replace raises on
\* the directive at hand
update_files_raises ==
    /\ pc = "update_files"
    /\ idx <= Len(directives)
    /\ \/ pc' # "update_files"
       \/ /\ directives[idx].path \in Range(fnames')
          /\ do_replace(directives[idx].path, directives[idx].original,
                        directives[idx].updated).exc # ""

\* C18: when update_files raises, run_loop catches the exception and returns
\* as after a turn without edits: commit is not called, nothing is archived,
\* the active buffer ends with the input and the response of the turn, and
\* the session reads the next input.
C18_ApplyErrorEndsTurnWithoutEdits ==
    [][update_files_raises
         => /\ pc' = "get_input"
            /\ exc' = exc
            /\ ~last_commit'.called
            /\ head' = head /\ ncommits' = ncommits
            /\ last_modified' = last_modified
            /\ done_messages' = done_messages
            /\ cur_messages' = cur_messages
            /\ Len(cur_messages) >= 2
            /\ cur_messages[Len(cur_messages) - 1] = Message("user", <<"inp", inp>>)
            /\ Last(cur_messages) = Message("assistant", content)
            /\ num_control_c' = num_control_c]_vars

\* the first turn of a session was left by an exception of update_files,
\* after it had registered the new file "n"
C18_Witness ==
    /\ pc = "get_input"
    /\ Len(cur_messages) = 2
    /\ cur_messages[1].role = "user"
    /\ cur_messages[2] = Message("assistant", <<"response">>)
    /\ "n" \in Range(fnames) \ exists
    /\ done_messages = <<>>
    /\ ncommits = 0

\* C19: a turn whose response was received whole and in which no directive
\* was applied (update_files returns and has written no file) ends without a
\* commit and without archiving anything: the active buffer is what it was
\* when the transcript was sent, followed by the response, and the input that
\* follows is read with that buffer.
C19_TurnWithoutAppliedDirectiveKeepsBuffer ==
    [][(update_files_returned /\ written = {})
         => /\ pc' = "get_input"
            /\ ~last_commit'.called
            /\ head' = head /\ ncommits' = ncommits
            /\ done_messages' = done_messages
            /\ cur_messages' = cur_messages
            /\ Last(cur_messages) = Message("assistant", content)]_vars

\* what do_replace is to write for directive d, given what the file of d
\* holds in storage now (nothing, if it does not exist)
new_content(d) ==
    IF strip_quoted_wrapping(d.original, d.path).text = <<>> /\ disk[d.path] = <<>>
    THEN strip_quoted_wrapping(d.updated, d.path).text
    ELSE matcher_result(d).text

\* what do_gpt_powered_replace may write to the file fname
rewrites(fname) ==
    {strip_quoted_wrapping(res, fname).text :
         res \in {e \in EscResults(fname) : strip_quoted_wrapping(e, fname).ok}}

\* C20: each directive is applied to what its file holds in storage when the
\* directive is processed, so the second of two directives for one file works
\* on what the first (or its rewrite) has written; a write replaces the whole
\* content of that file and touches no other file.
C20_DirectiveAppliedToStoredContent ==
    [][(pc = "update_files" /\ idx <= Len(directives))
         => /\ pass_with("APPLIED")
                 => disk'[directives[idx].path] = new_content(directives[idx])
            /\ pass_with("ESCALATED")
                 => disk'[directives[idx].path] \in rewrites(directives[idx].path)
            /\ \A f \in Paths \ {directives[idx].path} : disk'[f] = disk[f]]_vars

\* the second directive for "a" has matched the text that the rewrite asked
\* for the first had written
C20_Witness ==
    /\ pc = "update_files"
    /\ response = "r_two"
    /\ outcomes = <<"ESCALATED", "APPLIED">>
    /\ disk["a"] = Z

\* C21: whenever run_loop is about to read an input, every registered path
\* names an existing file, so that get_last_modified and the listing of the
\* files are defined in the turn that follows.
C21_RegisteredPathsExist == pc = "get_input" => all_exist(fnames)

====
